---- MODULE Spec2Model ----
(***************************************************************************)
(* lessc-make: option resolution (normalizeOptions), the dependency        *)
(* stanza generator (generateDepends) and the render/write phase of        *)
(* src/lessc_make.js, as a state machine.                                  *)
(*                                                                         *)
(* A JavaScript string is a sequence of one-character strings, so that     *)
(* concatenation, join, dirname and line counting are computed on the      *)
(* characters.  A JavaScript value is a record [t, v]: t is the kind       *)
(* (undefined, null, true, false, string, the process.stdin object, the    *)
(* process.stdout object) and v the characters of a string.                *)
(***************************************************************************)
EXTENDS Integers, Sequences, FiniteSets, TLC

(* ------------------------------ bounds --------------------------------- *)
\* most positional (non-option) arguments on the command line
MaxPositional == 2
\* most entries in the import list the compiler reports
MaxImports == 2

(* --------------------------- JavaScript values ------------------------- *)
Undefined == [t |-> "undefined", v |-> <<>>]
Null      == [t |-> "null",      v |-> <<>>]
True      == [t |-> "true",      v |-> <<>>]
False     == [t |-> "false",     v |-> <<>>]
Stdin     == [t |-> "stdin",     v |-> <<>>]
Stdout    == [t |-> "stdout",    v |-> <<>>]
Str(s)    == [t |-> "string",    v |-> s]

\* ToBoolean: undefined, null, false and '' are falsy; objects are truthy.
Truthy(x) ==
    CASE x.t = "string" -> x.v /= <<>>
      [] x.t \in {"true", "stdin", "stdout"} -> TRUE
      [] OTHER -> FALSE

\* x || false, for a flag that is either absent or true.
OrFalse(x) == IF Truthy(x) THEN x ELSE False

\* ToString of a value used as an operand of +: a stream object has no
\* toString of its own and prints as [object Object].
ObjectString == <<"[","o","b","j","e","c","t"," ","O","b","j","e","c","t","]">>
ToStr(x) ==
    CASE x.t = "string" -> x.v
      [] x.t \in {"stdin", "stdout"} -> ObjectString
      [] x.t = "undefined" -> <<"u","n","d","e","f","i","n","e","d">>
      [] x.t = "null" -> <<"n","u","l","l">>
      [] OTHER -> <<>>

\* x == '-' (loose equality with a string literal).
IsDash(x) == x.t = "string" /\ x.v = <<"-">>

\* src/lessc_make.js:69  isPath
isPath(value) == value.t = "string"

(* ------------------------------ path (posix) --------------------------- *)
\* the working directory of the process, as path components
Cwd == << <<"w">> >>

RECURSIVE SplitFrom(_, _, _)
\* components of p between slashes, from position i on, cur being the
\* component read so far; empty components are dropped
SplitFrom(p, i, cur) ==
    IF i > Len(p)
    THEN IF cur = <<>> THEN <<>> ELSE <<cur>>
    ELSE IF p[i] = "/"
         THEN (IF cur = <<>> THEN <<>> ELSE <<cur>>) \o SplitFrom(p, i + 1, <<>>)
         ELSE SplitFrom(p, i + 1, Append(cur, p[i]))

Split(p) == SplitFrom(p, 1, <<>>)

RECURSIVE NormalizeParts(_, _)
\* resolve '.' and '..' components of an absolute path (acc is the result
\* so far); '..' at the root stays at the root
NormalizeParts(parts, acc) ==
    IF parts = <<>> THEN acc
    ELSE LET c == Head(parts) IN
         IF c = <<".">> THEN NormalizeParts(Tail(parts), acc)
         ELSE IF c = <<".", ".">>
              THEN NormalizeParts(Tail(parts),
                                  IF acc = <<>> THEN acc
                                  ELSE SubSeq(acc, 1, Len(acc) - 1))
              ELSE NormalizeParts(Tail(parts), Append(acc, c))

RECURSIVE JoinParts(_, _)
\* the components joined by sep
JoinParts(parts, sep) ==
    IF parts = <<>> THEN <<>>
    ELSE IF Len(parts) = 1 THEN Head(parts)
         ELSE Head(parts) \o sep \o JoinParts(Tail(parts), sep)

\* an absolute path as its normalised components
ResolveParts(p) ==
    IF p /= <<>> /\ p[1] = "/"
    THEN NormalizeParts(Split(p), <<>>)
    ELSE NormalizeParts(Cwd \o Split(p), <<>>)

AbsFromParts(parts) == <<"/">> \o JoinParts(parts, <<"/">>)

\* path.resolve(p)
PathResolve(p) == AbsFromParts(ResolveParts(p))

\* path.dirname(p) of an absolute, normalised path p
PathDirname(p) ==
    LET parts == Split(p) IN
    IF parts = <<>> THEN <<"/">>
    ELSE AbsFromParts(SubSeq(parts, 1, Len(parts) - 1))

RECURSIVE CommonPrefixLen(_, _)
CommonPrefixLen(a, b) ==
    IF a = <<>> \/ b = <<>> \/ Head(a) /= Head(b) THEN 0
    ELSE 1 + CommonPrefixLen(Tail(a), Tail(b))

\* path.relative(from, to)
PathRelative(from, to) ==
    LET f == ResolveParts(from)
        g == ResolveParts(to)
        k == CommonPrefixLen(f, g)
        ups == [i \in 1..(Len(f) - k) |-> <<".", ".">>]
    IN  JoinParts(ups \o SubSeq(g, k + 1, Len(g)), <<"/">>)

(* ------------------------------ option bags ---------------------------- *)
\* o[k], undefined when the object has no such key
Get(o, k) == IF k \in DOMAIN o THEN o[k] ELSE Undefined

\* o[k] = v
Set(o, k, v) == [x \in (DOMAIN o) \cup {k} |-> IF x = k THEN v ELSE o[x]]

\* old_key.replace(/-/g, '_') on the option names of the command line
NewKey ==
    [k \in {"help", "no-css", "source-map", "source-map-inline",
            "source-map-root", "source-map-base", "depends",
            "depends-phony", "depends-target"} |->
        CASE k = "help" -> "help"
          [] k = "no-css" -> "no_css"
          [] k = "source-map" -> "source_map"
          [] k = "source-map-inline" -> "source_map_inline"
          [] k = "source-map-root" -> "source_map_root"
          [] k = "source-map-base" -> "source_map_base"
          [] k = "depends" -> "depends"
          [] k = "depends-phony" -> "depends_phony"
          [] k = "depends-target" -> "depends_target"]

\* src/lessc_make.js:142-149: every key is replaced by its underscore form;
\* the dashed key itself is deleted
RenameKeys(o) ==
    [n \in {NewKey[k] : k \in DOMAIN o} |->
        o[CHOOSE k \in DOMAIN o : NewKey[k] = n]]

(* ------------------------------ error messages ------------------------- *)
NoError == ""
ErrMutex78 == "The options --source-map and --source-map-inline are mutually exclusive."
ErrMutex115 == "Options --source-map and --source-map-inline are mutually exclusive."
ErrNoMapName == "No file name given to --source-map and no destination CSS file given, can not deduce a source map file name. Either use --source-map-inline or specify a path."
ErrBase == "Can not deduce a value for --source-map-base: CSS output is being written to standard output."
ErrRootStdin == "Can not deduce a value for --source-map-root: less source is being read from standard input."
ErrRootStdout == "Can not deduce a value for --source-map-root: source map is being written to standard output."
ErrNoSourceNoRoot == "No source file given and no --source-map-root specified"
ErrNoMapNoRoot == "No source map file given and no --source-map-root specified."
ErrNoDependsName == "No file name given to --depends and no destination CSS file given. Please specify a path."
ErrTargetValue == "Option --depends-target must have a value."
ErrNoTarget == "Dependency tracking is enabled but no --depends-target and no destination CSS given."
ErrUnknownOption == "unknown option: "
ErrMissingSource == "missing required parameter: SOURCE"
ErrMissingDest == "missing required parameter: DEST (or alternatively --no-css)"
ErrStdoutConflict == "You tried to used standard output for more than one type of output (CSS output, source map and/or depencency file). This is not supported."
ErrRender == "less: render or read error"
ErrWrite == "write error"

\* the outcome of a function that may throw: err is the message thrown
\* (NoError when it returns) and options the value returned
Throw(msg, o) == [err |-> msg, options |-> o]
Return(o)     == [err |-> NoError, options |-> o]

(* ------------------------------ option resolution ---------------------- *)
\* Each function below is written as a chain of steps, one per statement
\* group of the source, every step handing the options object to the next.

\* src/lessc_make.js:87  source_dir
SourceDir(o) ==
    IF ~isPath(Get(o, "source")) THEN Null
    ELSE Str(PathDirname(PathResolve(o["source"].v)))

\* src/lessc_make.js:88  dest_abs
DestAbs(o) ==
    IF ~isPath(Get(o, "dest")) THEN Null ELSE Str(PathResolve(o["dest"].v))

\* src/lessc_make.js:89  dest_dir
DestDir(o) ==
    IF ~isPath(DestAbs(o)) THEN Null ELSE Str(PathDirname(DestAbs(o).v))

\* src/lessc_make.js:91-97  map_abs
MapAbs(o) ==
    IF isPath(Get(o, "source_map")) THEN Str(PathResolve(o["source_map"].v))
    ELSE IF Truthy(Get(o, "source_map_inline")) THEN DestAbs(o)
    ELSE Null

\* src/lessc_make.js:98  map_dir
MapDir(o) ==
    IF ~isPath(MapAbs(o)) THEN Null ELSE Str(PathDirname(MapAbs(o).v))

\* src/lessc_make.js:113-120
smFinalChecks(o) ==
    IF ~Truthy(Get(o, "source_map")) THEN Return(o)
    ELSE IF Truthy(Get(o, "source_map_inline")) THEN Throw(ErrMutex115, o)
    ELSE IF ~isPath(Get(o, "source")) /\ ~Truthy(Get(o, "source_map_root"))
         THEN Throw(ErrNoSourceNoRoot, o)
    ELSE IF ~isPath(o["source_map"]) /\ ~Truthy(Get(o, "source_map_root"))
         THEN Throw(ErrNoMapNoRoot, o)
    ELSE Return(o)

\* variant of smDeduceRoot: the arguments of path.relative are exchanged
smDeduceRoot_Swapped(o) ==
    IF Truthy(Get(o, "source_map_root")) THEN smFinalChecks(o)
    ELSE IF ~Truthy(SourceDir(o)) THEN Throw(ErrRootStdin, o)
    ELSE IF ~Truthy(MapDir(o)) THEN Throw(ErrRootStdout, o)
    ELSE smFinalChecks(Set(o, "source_map_root",
                           Str(PathRelative(SourceDir(o).v, MapDir(o).v))))

\* src/lessc_make.js:106-111
smDeduceRoot(o) ==
    IF Truthy(Get(o, "source_map_root")) THEN smFinalChecks(o)
    ELSE IF ~Truthy(SourceDir(o)) THEN Throw(ErrRootStdin, o)
    ELSE IF ~Truthy(MapDir(o)) THEN Throw(ErrRootStdout, o)
    ELSE smFinalChecks(Set(o, "source_map_root",
                           Str(PathRelative(MapDir(o).v, SourceDir(o).v))))

\* src/lessc_make.js:100-104
smDeduceBase(o) ==
    IF Truthy(Get(o, "source_map_base")) THEN smDeduceRoot(o)
    ELSE IF ~Truthy(DestDir(o)) THEN Throw(ErrBase, o)
    ELSE smDeduceRoot(Set(o, "source_map_base", Str(PathResolve(DestDir(o).v))))

\* variant of smDeduceFile: the suffix '.map' is not appended
smDeduceFile_NoSuffix(o) ==
    IF Get(o, "source_map") /= Null THEN smDeduceBase(o)
    ELSE IF isPath(Get(o, "dest"))
         THEN smDeduceBase(Set(o, "source_map", Str(o["dest"].v)))
         ELSE Throw(ErrNoMapName, o)

\* variant of smDeduceFile: the name is deduced from whatever options.dest is
smDeduceFile_AnyDest(o) ==
    IF Get(o, "source_map") /= Null THEN smDeduceBase(o)
    ELSE smDeduceBase(Set(o, "source_map",
                          Str(ToStr(Get(o, "dest")) \o <<".", "m", "a", "p">>)))

\* src/lessc_make.js:82-85
smDeduceFile(o) ==
    IF Get(o, "source_map") /= Null THEN smDeduceBase(o)
    ELSE IF isPath(Get(o, "dest"))
         THEN smDeduceBase(Set(o, "source_map", Str(o["dest"].v \o <<".", "m", "a", "p">>)))
         ELSE Throw(ErrNoMapName, o)

\* variant of smCheckExclusive: the check of line 78 is missing
smCheckExclusive_NoCheck(o) ==
    smDeduceFile(IF IsDash(Get(o, "source_map")) THEN Set(o, "source_map", Stdout)
                 ELSE o)

\* src/lessc_make.js:77-81
smCheckExclusive(o) ==
    IF Truthy(Get(o, "source_map")) /\ Truthy(Get(o, "source_map_inline"))
    THEN Throw(ErrMutex78, o)
    ELSE smDeduceFile(IF IsDash(Get(o, "source_map")) THEN Set(o, "source_map", Stdout)
                      ELSE o)

\* src/lessc_make.js:73-121
normalizeSourceMapOptions(options) ==
    smCheckExclusive(
        Set(Set(options,
                "source_map_inline", OrFalse(Get(options, "source_map_inline"))),
            "source_map_include_source",
            OrFalse(Get(options, "source_map_include_source"))))

\* src/lessc_make.js:131-138
depCheckTarget(o) ==
    IF Get(o, "depends_target") = Null THEN Throw(ErrTargetValue, o)
    ELSE IF ~(Truthy(Get(o, "depends")) /\ ~Truthy(Get(o, "depends_target")))
         THEN Return(o)
    ELSE IF ~Truthy(Get(o, "dest")) THEN Throw(ErrNoTarget, o)
    ELSE Return(Set(o, "depends_target", Get(o, "dest")))

\* variant of depDeduceFile: the name is deduced from the source file
depDeduceFile_FromSource(o) ==
    IF Get(o, "depends") /= Null THEN depCheckTarget(o)
    ELSE IF ~Truthy(Get(o, "dest")) THEN Throw(ErrNoDependsName, o)
    ELSE depCheckTarget(Set(o, "depends", Str(ToStr(Get(o, "source")) \o <<".", "d">>)))

\* src/lessc_make.js:126-129
depDeduceFile(o) ==
    IF Get(o, "depends") /= Null THEN depCheckTarget(o)
    ELSE IF ~Truthy(Get(o, "dest")) THEN Throw(ErrNoDependsName, o)
    ELSE depCheckTarget(Set(o, "depends", Str(ToStr(Get(o, "dest")) \o <<".", "d">>)))

\* src/lessc_make.js:123-139
normalizeDependsOptions(options) ==
    depDeduceFile(IF IsDash(Get(options, "depends")) THEN Set(options, "depends", Stdout)
                  ELSE options)

\* does the positional argument look like a flag (option != '-' && option[0] == '-')
LooksLikeFlag(option) == option /= <<"-">> /\ option /= <<>> /\ option[1] = "-"

\* variant of StdoutCount: the dependency file is left out of the count
StdoutCount_NoDepends(o) ==
    (IF Get(o, "dest") = Stdout THEN 1 ELSE 0)
    + (IF Get(o, "source_map") = Stdout THEN 1 ELSE 0)

\* (a === process.stdout) + (b === process.stdout) + (c === process.stdout)
StdoutCount(o) ==
    (IF Get(o, "dest") = Stdout THEN 1 ELSE 0)
    + (IF Get(o, "source_map") = Stdout THEN 1 ELSE 0)
    + (IF Get(o, "depends") = Stdout THEN 1 ELSE 0)

\* variant of checkStdoutConflict: the conflict is reported only when all
\* three outputs are on stdout
checkStdoutConflict_AllThree(r) ==
    IF r.err /= NoError THEN r
    ELSE IF StdoutCount(r.options) > 2 THEN Throw(ErrStdoutConflict, r.options)
    ELSE r

\* src/lessc_make.js:173-178: the outcome r of the two normalisers, then the
\* check for conflicts on stdout
checkStdoutConflict(r) ==
    IF r.err /= NoError THEN r
    ELSE IF StdoutCount(r.options) > 1 THEN Throw(ErrStdoutConflict, r.options)
    ELSE r

\* src/lessc_make.js:170-171: normalizeDependsOptions runs on what
\* normalizeSourceMapOptions returned, unless that threw
thenDepends(r) == IF r.err /= NoError THEN r ELSE normalizeDependsOptions(r.options)

\* src/lessc_make.js:161-165: options.source and options.dest.  The keys were
\* renamed before, so options['no-css'] is read from an object that holds
\* no_css instead.
setSourceAndDest(o, unknown) ==
    Set(Set(o, "source", IF unknown[1] = <<"-">> THEN Stdin ELSE Str(unknown[1])),
           "dest",
           IF Truthy(Get(o, "no-css")) THEN Null
           ELSE IF Len(unknown) < 2 THEN Undefined
           ELSE IF unknown[2] = <<"-">> THEN Stdout
           ELSE Str(unknown[2]))

\* src/lessc_make.js:151-159: the error the positional arguments are
\* rejected with, NoError when they pass
checkPositional(o, unknown) ==
    IF \E i \in 1..Len(unknown) : LooksLikeFlag(unknown[i]) THEN ErrUnknownOption
    ELSE IF Len(unknown) < 1 THEN ErrMissingSource
    ELSE IF ~Truthy(Get(o, "no_css")) /\ Len(unknown) < 2 THEN ErrMissingDest
    ELSE NoError

\* the steps of normalizeOptions after the keys are renamed
normalizeRenamed(o, unknown) ==
    IF checkPositional(o, unknown) /= NoError
    THEN Throw(checkPositional(o, unknown), o)
    ELSE checkStdoutConflict(
             thenDepends(normalizeSourceMapOptions(setSourceAndDest(o, unknown))))

\* src/lessc_make.js:141-179.  raw is the object parseOptions returned and
\* unknown its _unknown array (the positional arguments).
normalizeOptions(raw, unknown) == normalizeRenamed(RenameKeys(raw), unknown)

(* ------------------------------ compiler options ----------------------- *)
\* src/lessc_make.js:181-185 (the throw of line 184 is unreachable from
\* makeSourceMapOptions, which returns before calling it in that case)
sourceMapResolvedPath(options) ==
    IF Truthy(Get(options, "source_map"))
    THEN IF ~isPath(options["source_map"]) THEN <<"/","d","e","v","/","s","t","d","o","u","t">>
         ELSE PathResolve(options["source_map"].v)
    ELSE IF ~isPath(Get(options, "dest")) THEN <<"/","d","e","v","/","s","t","d","o","u","t">>
         ELSE PathResolve(options["dest"].v)

\* src/lessc_make.js:187-200.  enabled = FALSE stands for the value false
\* the function returns when no source map is requested.
makeSourceMapOptions(options) ==
    IF ~Truthy(Get(options, "source_map")) /\ ~Truthy(Get(options, "source_map_inline"))
    THEN [enabled |-> FALSE, sourceMapFileInline |-> False,
          sourceMapRootpath |-> Undefined, sourceMapFilename |-> <<>>]
    ELSE [enabled |-> TRUE,
          sourceMapFileInline |-> Get(options, "source_map_inline"),
          sourceMapRootpath |-> Get(options, "source_map_root"),
          sourceMapFilename |-> sourceMapResolvedPath(options)]

(* ------------------------------ dependency stanza ---------------------- *)
\* Array.prototype.join
Join(list, sep) == JoinParts(list, sep)

\* variant of generateDepends: the phony rules are appended whatever the flag
generateDepends_AlwaysPhony(imports, target, phony) ==
    ToStr(target) \o <<":", " ">> \o Join(imports, <<" ">>) \o <<"\n">>
    \o Join(imports, <<":", "\n">>) \o <<":", "\n">>

\* variant of generateDepends: the rule of the last import is not closed
generateDepends_OpenLastRule(imports, target, phony) ==
    LET result == ToStr(target) \o <<":", " ">> \o Join(imports, <<" ">>) \o <<"\n">>
    IN  IF Truthy(phony)
        THEN result \o Join(imports, <<":", "\n">>) \o <<"\n">>
        ELSE result

\* src/lessc_make.js:224-232.  imports is less_result.imports, target the
\* value of options.depends_target and phony that of options.depends_phony.
generateDepends(imports, target, phony) ==
    LET result == ToStr(target) \o <<":", " ">> \o Join(imports, <<" ">>) \o <<"\n">>
    IN  IF Truthy(phony)
        THEN result \o Join(imports, <<":", "\n">>) \o <<":", "\n">>
        ELSE result

(* ------------------------------ inputs --------------------------------- *)
\* the paths a positional argument may name, '-' and a word that looks
\* like a flag
PositionalValues == {<<"-">>, <<"a">>, <<"o", "/", "c">>, <<"-", "x">>}
\* the path given to --source-map or --depends
OptionPath == <<"o", "/", "c">>

RECURSIVE SeqsUpTo(_, _)
\* the sequences over S of length at most n
SeqsUpTo(S, n) ==
    IF n = 0 THEN {<<>>}
    ELSE LET shorter == SeqsUpTo(S, n - 1) IN
         shorter \cup {Append(q, x) : q \in shorter, x \in S}

Flag == {Undefined, True}
PathOption == {Undefined, Null, Str(<<"-">>), Str(OptionPath)}

\* what parseOptions can return, without _unknown
RawOptions ==
    {[k \in DOMAIN NewKey |->
        CASE k = "help" -> h
          [] k = "no-css" -> nc
          [] k = "source-map" -> sm
          [] k = "source-map-inline" -> smi
          [] k = "source-map-root" -> smr
          [] k = "source-map-base" -> smb
          [] k = "depends" -> d
          [] k = "depends-phony" -> dp
          [] k = "depends-target" -> dt] :
        h \in Flag, nc \in Flag, sm \in PathOption, smi \in Flag,
        smr \in {Undefined, Str(<<"r">>)}, smb \in {Undefined, Str(<<"b">>)},
        d \in PathOption, dp \in Flag,
        dt \in {Undefined, Null, Str(<<"t">>)}}

\* the file names the compiler may report as imported
ImportNames == {<<"a">>, <<"b">>}
ImportLists == SeqsUpTo(ImportNames, MaxImports)

(* ------------------------------ the program ---------------------------- *)
VARIABLES
    pc,          \* where main() is: "main", "render", "compile", "write", "exited"
    raw,         \* the object parseOptions returned (dashed keys)
    unknown,     \* its _unknown array: the positional arguments
    options,     \* the options object main() holds
    message,     \* what was written to standard error on a fatal error
    exit_code,   \* the exit code of the process, -1 while it runs
    less_options,\* result.sourceMap of makeLessOptions, as passed to less.render
    imports,     \* less_result.imports once the compiler has returned
    writes,      \* the writeFile calls issued, in the order of the promises array
    dirs,        \* the directories of the file system, as absolute paths
    files,       \* the paths that exist and are not directories
    mk           \* per writeFile call, where its util.mkdirp call is

vars == <<pc, raw, unknown, options, message, exit_code, less_options, imports, writes,
          dirs, files, mk>>

NoSourceMap == makeSourceMapOptions(<<>>)

Init ==
    /\ pc = "main"
    /\ raw \in RawOptions
    /\ unknown \in SeqsUpTo(PositionalValues, MaxPositional)
    /\ options = raw
    /\ message = NoError
    /\ exit_code = -1
    /\ less_options = NoSourceMap
    /\ imports = <<>>
    /\ writes = <<>>
    /\ dirs = {<<"/">>, PathResolve(<<".">>)}
    /\ files = {}
    /\ mk = <<>>

\* variant of MainResolved: the error is printed but process.exit(1) is missing,
\* so main goes on with the options as they were when the error was thrown
MainResolved_NoExit(r) ==
    /\ pc' = "render"
    /\ options' = r.options
    /\ message' = r.err
    /\ UNCHANGED exit_code

\* src/lessc_make.js:291-302: r is what normalizeOptions returned or threw
MainResolved(r) ==
    IF r.err /= NoError
    THEN /\ pc' = "exited"
         /\ exit_code' = 1
         /\ message' = r.err
         /\ UNCHANGED options
    ELSE /\ pc' = "render"
         /\ options' = r.options
         /\ UNCHANGED <<message, exit_code>>

\* src/lessc_make.js:284-303  main, up to the call of renderAndWriteLess
Main ==
    /\ pc = "main"
    /\ IF Truthy(raw["help"])
       THEN /\ pc' = "exited"
            /\ exit_code' = 0
            /\ UNCHANGED <<options, message>>
       ELSE MainResolved(normalizeOptions(raw, unknown))
    /\ UNCHANGED <<raw, unknown, less_options, imports, writes,
                 dirs, files, mk>>

\* src/lessc_make.js:205-207: options.source is truthy for a path and for
\* process.stdin alike, and path.dirname(process.stdin) throws a TypeError
\* (path.dirname accepts strings only), so makeLessOptions throws when the
\* source is standard input
makeLessOptionsThrows(o) ==
    Truthy(Get(o, "source")) /\ ~isPath(Get(o, "source"))

\* src/lessc_make.js:220-222  renderLess: the source is read and less.render
\* is called with makeLessOptions(options)
RenderLess ==
    /\ pc = "render"
    /\ ~makeLessOptionsThrows(options)
    /\ pc' = "compile"
    /\ less_options' = makeSourceMapOptions(options)
    /\ UNCHANGED <<raw, unknown, options, message, exit_code, imports, writes,
                 dirs, files, mk>>

\* src/lessc_make.js:305-308: reading the source, makeLessOptions or the
\* compiler fails; the rejection is unhandled
RenderFail ==
    /\ pc \in {"render", "compile"}
    /\ pc' = "exited"
    /\ exit_code' = 1
    /\ message' = ErrRender
    /\ UNCHANGED <<raw, unknown, options, less_options, imports, writes,
                 dirs, files, mk>>

\* one writeFile(file, data) call, not yet completed
WriteCall(chan, file, data) == [chan |-> chan, file |-> file, data |-> data, state |-> "pending"]

\* src/lessc_make.js:236-253: the promises array, for the configuration o,
\* the import list imps and the map the compiler returned
IssuedWrites(o, imps, map) ==
       (IF ~Truthy(Get(o, "no_css"))
        THEN <<WriteCall("css", Get(o, "dest"), <<"C", "\n">>)>>
        ELSE <<>>)
    \o (IF Truthy(Get(o, "source_map"))
        THEN <<WriteCall("map", o["source_map"],
                         IF Truthy(map) THEN map.v \o <<"\n">> ELSE <<>>)>>
        ELSE <<>>)
    \o (IF Truthy(Get(o, "depends"))
        THEN <<WriteCall("depends", o["depends"],
                         generateDepends(imps, Get(o, "depends_target"),
                                         Get(o, "depends_phony")))>>
        ELSE <<>>)

\* src/lessc_make.js:235-256: the compiler returned css, map and the import
\* list; every requested output is handed to util.writeFile
RenderDone ==
    /\ pc = "compile"
    /\ \E imps \in ImportLists, map \in {Undefined, Str(<<"M">>)} :
        /\ imports' = imps
        /\ writes' = IssuedWrites(options, imps, map)
    /\ pc' = "write"
    /\ UNCHANGED <<raw, unknown, options, message, exit_code, less_options,
                 dirs, files, mk>>

\* src/util.js:83-87  a writeFile promise is fulfilled
WriteFinish(i) ==
    /\ pc = "write"
    /\ i \in DOMAIN writes
    /\ writes[i].state = "pending"
    /\ writes' = [writes EXCEPT ![i].state = "done"]
    /\ UNCHANGED <<pc, raw, unknown, options, message, exit_code, less_options, imports,
                 dirs, files, mk>>

\* src/util.js:83-87 with src/lessc_make.js:305-308: a writeFile promise is
\* rejected, Promise.all rejects and nothing handles it
WriteError(i) ==
    /\ pc = "write"
    /\ i \in DOMAIN writes
    /\ writes[i].state = "pending"
    /\ writes' = [writes EXCEPT ![i].state = "failed"]
    /\ pc' = "exited"
    /\ exit_code' = 1
    /\ message' = ErrWrite
    /\ UNCHANGED <<raw, unknown, options, less_options, imports,
                 dirs, files, mk>>

\* every promise of Promise.all is fulfilled: nothing is left to do and the
\* process ends
Finish ==
    /\ pc = "write"
    /\ \A i \in DOMAIN writes : writes[i].state = "done"
    /\ pc' = "exited"
    /\ exit_code' = 0
    /\ UNCHANGED <<raw, unknown, options, message, less_options, imports, writes,
                 dirs, files, mk>>

Next ==
    \/ Main
    \/ RenderLess
    \/ RenderFail
    \/ RenderDone
    \/ \E i \in 1..3 : WriteFinish(i)
    \/ \E i \in 1..3 : WriteError(i)
    \/ Finish

Spec == Init /\ [][Next]_vars

(* ======================================================================= *)
(* util.writeFile and util.mkdirp on a file system                         *)
(* ======================================================================= *)

RECURSIVE LastSlash(_, _)
\* the position of the last "/" of p at or before i, 0 when there is none
LastSlash(p, i) ==
    IF i = 0 THEN 0 ELSE IF p[i] = "/" THEN i ELSE LastSlash(p, i - 1)

\* path.dirname(p) of a path without trailing or doubled slashes
dirname(p) ==
    LET i == LastSlash(p, Len(p)) IN
    IF i = 0 THEN <<".">> ELSE IF i = 1 THEN <<"/">> ELSE SubSeq(p, 1, i - 1)

RECURSIVE Ancestors(_)
\* an absolute path and every directory above it
Ancestors(abs) ==
    IF abs = <<"/">> THEN {abs} ELSE {abs} \cup Ancestors(PathDirname(abs))

\* src/util.js:21-22  err.code of fs.mkdir(dir), "" when the directory is
\* created
MkdirError(dir) ==
    LET abs == PathResolve(dir) IN
    IF abs \in dirs \cup files THEN "EEXIST"
    ELSE IF Ancestors(PathDirname(abs)) \cap files /= {} THEN "ENOTDIR"
    ELSE IF PathDirname(abs) \notin dirs THEN "ENOENT"
    ELSE ""

\* src/util.js:84-86: writeFile writes to a stream at once and calls
\* util.mkdirp(path.dirname(file)) for a path. top is the argument of that
\* call, dir the argument of the innermost mkdirp call running, depth the
\* number of mkdirp calls waiting for it
MkdirpCall(w) ==
    IF isPath(w.file)
    THEN [top |-> dirname(w.file.v), dir |-> dirname(w.file.v), depth |-> 0,
          phase |-> "mkdir", err |-> ""]
    ELSE [top |-> <<>>, dir |-> <<>>, depth |-> 0, phase |-> "none", err |-> ""]

\* the promise of the innermost mkdirp call is fulfilled: either it is the
\* call writeFile made, or the then-callback of line 33 of its caller runs
Fulfilled(m) ==
    [m EXCEPT !.phase = IF m.depth = 0 THEN "resolved" ELSE "then"]

\* src/util.js:29-34  util.mkdir(dir) and the catch handler: the directory is
\* created, or ENOENT starts mkdirp(path.dirname(path.resolve(dir))), or any
\* other error leads to util.stat(dir)
MkdirStep(i) ==
    /\ pc = "write"
    /\ i \in DOMAIN mk
    /\ mk[i].phase = "mkdir"
    /\ LET e == MkdirError(mk[i].dir) IN
         /\ dirs' = IF e = "" THEN dirs \cup {PathResolve(mk[i].dir)} ELSE dirs
         /\ mk' = [mk EXCEPT ![i] =
                      IF e = "" THEN Fulfilled(mk[i])
                      ELSE IF e = "ENOENT"
                           THEN [mk[i] EXCEPT !.dir = PathDirname(PathResolve(mk[i].dir)),
                                            !.depth = mk[i].depth + 1]
                           ELSE [mk[i] EXCEPT !.phase = "stat", !.err = e]]
    /\ UNCHANGED <<pc, raw, unknown, options, message, exit_code, less_options,
                   imports, writes, files>>

\* src/util.js:35-38 with 9-16: the stat of dir after a failed mkdir; a
\* directory fulfils the promise, anything else rejects it with the error of
\* mkdir, a failing stat with its own error
StatStep(i) ==
    /\ pc = "write"
    /\ i \in DOMAIN mk
    /\ mk[i].phase = "stat"
    /\ LET abs == PathResolve(mk[i].dir) IN
         mk' = [mk EXCEPT ![i] =
                   IF abs \in dirs THEN Fulfilled(mk[i])
                   ELSE [mk[i] EXCEPT !.phase = "rejected",
                                    !.err = IF abs \in files THEN mk[i].err
                                            ELSE IF Ancestors(abs) \cap files /= {}
                                                 THEN "ENOTDIR" ELSE "ENOENT"]]
    /\ UNCHANGED <<pc, raw, unknown, options, message, exit_code, less_options,
                   imports, writes, dirs, files>>

\* src/util.js:33: the callback () => mkdir(path, mode) runs once the parent
\* exists. No binding named mkdir is in scope (the function expression of
\* line 19 is named mkdir only inside itself), so the callback throws a
\* ReferenceError and the promise of every waiting mkdirp call is rejected
ThenStep(i) ==
    /\ pc = "write"
    /\ i \in DOMAIN mk
    /\ mk[i].phase = "then"
    /\ mk' = [mk EXCEPT ![i] = [mk[i] EXCEPT !.phase = "rejected",
                                            !.err = "ReferenceError"]]
    /\ UNCHANGED <<pc, raw, unknown, options, message, exit_code, less_options,
                   imports, writes, dirs, files>>

\* fs.createWriteStream(file) cannot open the file: it is a directory or its
\* directory does not exist
OpenFails(file) ==
    \/ PathResolve(file) \in dirs
    \/ PathDirname(PathResolve(file)) \notin dirs

\* src/util.js:84-86 with 69-75: the data is written to the stream given, or
\* to fs.createWriteStream(file) once mkdirp is fulfilled; an error of the
\* stream rejects the promise of writeFile (src/lessc_make.js:305-308)
WriteStream(i) ==
    /\ pc = "write"
    /\ i \in DOMAIN mk
    /\ writes[i].state = "pending"
    /\ mk[i].phase \in {"none", "resolved"}
    /\ IF mk[i].phase = "resolved" /\ OpenFails(writes[i].file.v)
       THEN /\ writes' = [writes EXCEPT ![i].state = "failed"]
            /\ pc' = "exited"
            /\ exit_code' = 1
            /\ message' = ErrWrite
            /\ UNCHANGED files
       ELSE /\ writes' = [writes EXCEPT ![i].state = "done"]
            /\ files' = IF mk[i].phase = "resolved"
                        THEN files \cup {PathResolve(writes[i].file.v)}
                        ELSE files
            /\ UNCHANGED <<pc, exit_code, message>>
    /\ UNCHANGED <<raw, unknown, options, less_options, imports, dirs, mk>>

\* src/util.js:86 with src/lessc_make.js:256 and 305-308: mkdirp is rejected,
\* so is writeFile and with it Promise.all; nothing handles the rejection
MkdirpRejected(i) ==
    /\ pc = "write"
    /\ i \in DOMAIN mk
    /\ writes[i].state = "pending"
    /\ mk[i].phase = "rejected"
    /\ writes' = [writes EXCEPT ![i].state = "failed"]
    /\ pc' = "exited"
    /\ exit_code' = 1
    /\ message' = ErrWrite
    /\ UNCHANGED <<raw, unknown, options, less_options, imports, dirs, files, mk>>

\* a destination two directories below the working directory
DeepPath == <<"o", "/", "p", "/", "c">>

\* SOURCE and DEST of the runs whose writes are followed on the file system
MkdirpPositionals ==
    {<<<<"a">>, <<"c">>>>, <<<<"a">>, OptionPath>>, <<<<"a">>, DeepPath>>,
     <<<<"a">>, <<"-">>>>}

\* their options: CSS is written, the source map and the dependency file
\* are optional
MkdirpRaw ==
    {r \in RawOptions :
        /\ r["help"] = Undefined /\ r["no-css"] = Undefined
        /\ r["source-map"] \in {Undefined, Null}
        /\ r["source-map-inline"] = Undefined
        /\ r["source-map-root"] /= Undefined /\ r["source-map-base"] /= Undefined
        /\ r["depends-phony"] = Undefined /\ r["depends-target"] = Undefined}

\* the file system before the run: the working directory exists, o and o/p
\* may, and o may be a file instead
InitialDirs ==
    {{<<"/">>, PathResolve(<<".">>)},
     {<<"/">>, PathResolve(<<".">>), PathResolve(<<"o">>)},
     {<<"/">>, PathResolve(<<".">>), PathResolve(<<"o">>), PathResolve(<<"o", "/", "p">>)}}

\* src/lessc_make.js:236-256: the state in which renderAndWriteLess has issued
\* its writeFile calls, for a resolved configuration
InitMkdirp ==
    /\ pc = "write"
    /\ raw \in MkdirpRaw
    /\ unknown \in MkdirpPositionals
    /\ normalizeOptions(raw, unknown).err = NoError
    /\ options = normalizeOptions(raw, unknown).options
    /\ message = NoError
    /\ exit_code = -1
    /\ less_options = makeSourceMapOptions(options)
    /\ imports \in {l \in ImportLists : Len(l) <= 1}
    /\ writes = IssuedWrites(options, imports, Str(<<"M">>))
    /\ mk = [i \in DOMAIN writes |-> MkdirpCall(writes[i])]
    /\ dirs \in InitialDirs
    /\ files \in {f \in {{}, {PathResolve(<<"o">>)}} : f \cap dirs = {}}

NextMkdirp ==
    \/ \E i \in 1..3 : MkdirStep(i)
    \/ \E i \in 1..3 : StatStep(i)
    \/ \E i \in 1..3 : ThenStep(i)
    \/ \E i \in 1..3 : WriteStream(i)
    \/ \E i \in 1..3 : MkdirpRejected(i)
    \/ Finish

SpecMkdirp == InitMkdirp /\ [][NextMkdirp]_vars

(* ======================================================================= *)
(* Properties                                                              *)
(* ======================================================================= *)

\* normalizeOptions has been called (main() got past --help)
NormalizeRan == pc /= "main" /\ ~Truthy(raw["help"])

\* normalizeOptions threw: main() printed the message and exited with 1
Failed ==
    /\ NormalizeRan
    /\ pc = "exited"
    /\ exit_code = 1
    /\ message \notin {NoError, ErrRender, ErrWrite}

\* normalizeOptions returned: options is the resolved configuration
Resolved == NormalizeRan /\ ~Failed

\* a positional argument that names a file
ConcretePath(word) == word /= <<>> /\ word /= <<"-">> /\ ~LooksLikeFlag(word)

HasSource == Len(unknown) >= 1
HasDest   == Len(unknown) >= 2
SOURCE    == unknown[1]
DEST      == unknown[2]

\* the positional arguments pass the checks of lines 151-159
PositionalsPass ==
    /\ HasSource
    /\ HasDest \/ Truthy(raw["no-css"])
    /\ \A i \in 1..Len(unknown) : ~LooksLikeFlag(unknown[i])

\* option k was not on the command line
Absent(k) == raw[k] = Undefined

\* the writeFile call issued for a channel, as a set (empty when none was)
WritesOf(chan) == {i \in DOMAIN writes : writes[i].chan = chan}

\* the pieces of text between occurrences of ch, empty pieces included
RECURSIVE Pieces(_, _, _, _)
Pieces(text, ch, i, cur) ==
    IF i > Len(text) THEN <<cur>>
    ELSE IF text[i] = ch THEN <<cur>> \o Pieces(text, ch, i + 1, <<>>)
    ELSE Pieces(text, ch, i + 1, Append(cur, text[i]))

\* the lines of a text that ends with a newline
Lines(text) ==
    LET ps == Pieces(text, "\n", 1, <<>>) IN SubSeq(ps, 1, Len(ps) - 1)

\* line is target, ': ', and the names of list separated by single spaces
IsPrimaryLine(line, target, list) ==
    LET t == ToStr(target)
        rest == SubSeq(line, Len(t) + 3, Len(line))
    IN  /\ Len(line) >= Len(t) + 2
        /\ SubSeq(line, 1, Len(t)) = t
        /\ line[Len(t) + 1] = ":"
        /\ line[Len(t) + 2] = " "
        /\ IF list = <<>> THEN rest = <<>> ELSE Pieces(rest, " ", 1, <<>>) = list

\* the dependency file has been generated: generateDepends was called with
\* imports, options.depends_target and options.depends_phony
DependsGenerated == WritesOf("depends") /= {}
DependsText == writes[CHOOSE i \in WritesOf("depends") : TRUE].data
EndsWithNewline(text) == text /= <<>> /\ text[Len(text)] = "\n"

(* ----------------------------------------------------------------------- *)
\* C1 (as claimed): when SOURCE and DEST are concrete paths and no source-map
\* and no dependency option is given, normalizeOptions returns, and the
\* configuration has source maps and dependency output disabled.
C1_Claim ==
    (/\ NormalizeRan
     /\ HasDest /\ ConcretePath(SOURCE) /\ ConcretePath(DEST)
     /\ \A k \in {"source-map", "source-map-inline", "source-map-root",
                  "source-map-base", "depends", "depends-phony", "depends-target"} :
            Absent(k))
    => /\ Resolved
       /\ ~makeSourceMapOptions(options).enabled
       /\ ~Truthy(Get(options, "depends"))

(* ----------------------------------------------------------------------- *)
\* how many of DEST, --source-map and --depends are given as '-'
DashCount ==
    (IF HasDest /\ DEST = <<"-">> THEN 1 ELSE 0)
    + (IF raw["source-map"] = Str(<<"-">>) THEN 1 ELSE 0)
    + (IF raw["depends"] = Str(<<"-">>) THEN 1 ELSE 0)

\* the error of the checks that run before the check for conflicts on stdout
\* (positional arguments, source-map options, dependency options), NoError
\* when they all pass
EarlierError ==
    IF checkPositional(RenameKeys(raw), unknown) /= NoError
    THEN checkPositional(RenameKeys(raw), unknown)
    ELSE thenDepends(normalizeSourceMapOptions(
                         setSourceAndDest(RenameKeys(raw), unknown))).err

\* C2 (as claimed): with two or more of DEST, --source-map and --depends given
\* as '-', normalizeOptions fails with the single-standard-output conflict
\* error, whatever the other options are.
C2_Claim ==
    (NormalizeRan /\ DashCount >= 2) => (Failed /\ message = ErrStdoutConflict)

\* C2 (amended): with two or more of them given as '-', normalizeOptions
\* always fails; the error is the conflict error exactly when no earlier
\* check rejects the invocation, which is the case at least when the
\* positional arguments pass, --source-map-base, --source-map-root and
\* --depends-target have values, --source-map-inline is absent and
\* --source-map is '-' or absent; otherwise it is that earlier check's error.
C2_Amended ==
    (NormalizeRan /\ DashCount >= 2) =>
        /\ Failed
        /\ (message = ErrStdoutConflict) <=> (EarlierError = NoError)
        /\ message /= ErrStdoutConflict => message = EarlierError
        /\ (/\ PositionalsPass
            /\ Truthy(raw["source-map-base"]) /\ Truthy(raw["source-map-root"])
            /\ Truthy(raw["depends-target"])
            /\ Absent("source-map-inline")
            /\ raw["source-map"] \in {Undefined, Str(<<"-">>)})
           => message = ErrStdoutConflict

\* C2 witness: two outputs were given as '-' and the run ended with the
\* conflict error
C2_Witness ==
    NormalizeRan /\ DashCount >= 2 /\ Failed /\ message = ErrStdoutConflict

(* ----------------------------------------------------------------------- *)
\* the writeFile calls issued so far that target process.stdout
StdoutWrites == {i \in DOMAIN writes : writes[i].file = Stdout}

\* C3: in every configuration normalizeOptions returns, at most one of
\* options.dest, options.source_map and options.depends is process.stdout,
\* and at most one writeFile call targets process.stdout.
C3_AtMostOneStdout ==
    Resolved =>
        /\ Cardinality({k \in {"dest", "source_map", "depends"} :
                            Get(options, k) = Stdout}) <= 1
        /\ Cardinality(StdoutWrites) <= 1

\* C3 witness: two outputs are being written, exactly one of them to stdout
C3_Witness ==
    /\ Resolved
    /\ pc = "write"
    /\ Len(writes) >= 2
    /\ Cardinality(StdoutWrites) = 1

(* ----------------------------------------------------------------------- *)
\* C4: without the phony flag generateDepends returns exactly one line: the
\* target, ': ', the imports in the order supplied (duplicates kept)
\* separated by single spaces, and a newline.
C4_OneLine ==
    (DependsGenerated /\ ~Truthy(Get(options, "depends_phony"))) =>
        /\ EndsWithNewline(DependsText)
        /\ Len(Lines(DependsText)) = 1
        /\ IsPrimaryLine(Lines(DependsText)[1], Get(options, "depends_target"), imports)

\* C4 witness: a dependency file without phony rules was generated for an
\* import list that names the same file twice
C4_Witness ==
    /\ DependsGenerated
    /\ ~Truthy(Get(options, "depends_phony"))
    /\ Len(imports) = 2 /\ imports[1] = imports[2]

(* ----------------------------------------------------------------------- *)
\* C5: with the phony flag and n >= 1 imports, generateDepends returns the
\* primary line followed by exactly n lines, the i-th being the i-th import
\* followed by ':' (1 + n lines in all).
C5_PhonyLines ==
    (DependsGenerated /\ Truthy(Get(options, "depends_phony")) /\ Len(imports) >= 1) =>
        /\ EndsWithNewline(DependsText)
        /\ Len(Lines(DependsText)) = 1 + Len(imports)
        /\ IsPrimaryLine(Lines(DependsText)[1], Get(options, "depends_target"), imports)
        /\ \A i \in 1..Len(imports) :
               Lines(DependsText)[1 + i] = imports[i] \o <<":">>

\* C5 witness: phony rules were generated for two imports, in an order that
\* is not the alphabetical one
C5_Witness ==
    /\ DependsGenerated
    /\ Truthy(Get(options, "depends_phony"))
    /\ imports = << <<"b">>, <<"a">> >>

(* ----------------------------------------------------------------------- *)
\* C6 (as claimed): for an empty import list generateDepends returns the
\* target, ': ' and a newline and nothing else, whatever the phony flag.
C6_Claim ==
    (DependsGenerated /\ imports = <<>>) =>
        DependsText = ToStr(Get(options, "depends_target")) \o <<":", " ", "\n">>

(* ----------------------------------------------------------------------- *)
MutexErrors == {ErrMutex78, ErrMutex115}
PositionalErrors == {ErrUnknownOption, ErrMissingSource, ErrMissingDest}

\* --source-map-inline and --source-map with a value are both given
BothMapModes == Truthy(raw["source-map"]) /\ Truthy(raw["source-map-inline"])

\* no configuration with both the file mode and the inline mode is returned
NeverBothModes ==
    Resolved => ~(Truthy(Get(options, "source_map"))
                  /\ Truthy(Get(options, "source_map_inline")))

\* C7 (as claimed): when --source-map-inline and --source-map with a path are
\* both given, normalizeOptions fails with the mutual-exclusivity error,
\* whatever SOURCE, DEST and the other options are, and no configuration with
\* both modes is ever returned.
C7_Claim ==
    /\ (NormalizeRan /\ BothMapModes) => (Failed /\ message \in MutexErrors)
    /\ NeverBothModes

\* C7 (amended): when both are given normalizeOptions always fails and no
\* configuration with both modes is ever returned; the error is the
\* mutual-exclusivity error whenever the positional arguments pass their
\* checks (SOURCE given, DEST given or --no-css, no word that looks like a
\* flag), and the error of those checks otherwise.
C7_Amended ==
    /\ (NormalizeRan /\ BothMapModes) =>
           /\ Failed
           /\ PositionalsPass => message \in MutexErrors
           /\ ~PositionalsPass => message \in PositionalErrors
    /\ NeverBothModes

\* C7 witness: both were given, with DEST on stdout, and the run ended with
\* the mutual-exclusivity error
C7_Witness ==
    /\ NormalizeRan /\ BothMapModes
    /\ isPath(raw["source-map"]) /\ raw["source-map"] /= Str(<<"-">>)
    /\ HasDest /\ DEST = <<"-">>
    /\ Failed /\ message \in MutexErrors

(* ----------------------------------------------------------------------- *)
\* C8: when --depends is given without a value and DEST is a concrete path D,
\* the resolved dependency file is D.d, and the resolved target is D when no
\* --depends-target is given.
C8_DependsDerived ==
    (Resolved /\ raw["depends"] = Null /\ HasDest /\ ConcretePath(DEST)) =>
        /\ Get(options, "depends") = Str(DEST \o <<".", "d">>)
        /\ Absent("depends-target") => Get(options, "depends_target") = Str(DEST)

\* C8 witness: the dependency file and the target were both derived from a
\* DEST that differs from SOURCE
C8_Witness ==
    /\ Resolved /\ raw["depends"] = Null /\ Absent("depends-target")
    /\ HasDest /\ ConcretePath(DEST) /\ DEST /= SOURCE
    /\ Get(options, "depends") = Str(DEST \o <<".", "d">>)
    /\ Get(options, "depends_target") = Str(DEST)

(* ----------------------------------------------------------------------- *)
\* dependency output is requested
DependsRequested == ~Absent("depends")

\* C9 (as claimed): when dependency output is enabled and the CSS destination
\* is stdout or CSS output is suppressed, resolution fails unless
\* --depends-target is given; so the dependency file and the target handed to
\* generateDepends are never derived from a destination that is not a
\* concrete path, and the target is a non-empty string.
C9_Claim ==
    /\ (/\ NormalizeRan /\ DependsRequested
        /\ (HasDest /\ DEST = <<"-">>) \/ Truthy(raw["no-css"])
        /\ ~Truthy(raw["depends-target"]))
       => Failed
    /\ (Resolved /\ Truthy(Get(options, "depends"))) =>
           /\ isPath(Get(options, "depends_target"))
           /\ Get(options, "depends_target").v /= <<>>
           /\ raw["depends"] = Null => (HasDest /\ ConcretePath(DEST))

(* ----------------------------------------------------------------------- *)
\* C10: when --source-map is given without a value and DEST is a concrete path
\* D, the resolved source map file is D.map; when DEST is not a concrete path
\* (stdout or absent) and --source-map-inline is not given, resolution fails.
C10_MapDerived ==
    /\ (Resolved /\ raw["source-map"] = Null /\ HasDest /\ ConcretePath(DEST)) =>
           Get(options, "source_map") = Str(DEST \o <<".", "m", "a", "p">>)
    /\ (/\ NormalizeRan /\ raw["source-map"] = Null
        /\ ~(HasDest /\ ConcretePath(DEST))
        /\ Absent("source-map-inline"))
       => Failed

\* C10 witness: the source map file was derived from DEST and is being written
C10_Witness ==
    /\ Resolved /\ raw["source-map"] = Null /\ HasDest /\ ConcretePath(DEST)
    /\ \E i \in WritesOf("map") : writes[i].file = Str(DEST \o <<".", "m", "a", "p">>)

\* C10, second case: --source-map had no value, DEST was stdout, and the run
\* ended with the error of line 84
C10_FailureReached ==
    /\ NormalizeRan /\ raw["source-map"] = Null /\ Absent("source-map-inline")
    /\ HasDest /\ DEST = <<"-">>
    /\ Failed /\ message = ErrNoMapName

(* ----------------------------------------------------------------------- *)
\* a source map is requested, as a file or inline
MapRequested == ~Absent("source-map") \/ Truthy(raw["source-map-inline"])

\* the resolved file the map goes to: the map file, or the CSS destination
\* in inline mode
MapLocation ==
    IF Truthy(Get(options, "source_map")) THEN options["source_map"]
    ELSE Get(options, "dest")

\* the map is bound to standard output on the command line
MapOnStdout ==
    \/ raw["source-map"] = Str(<<"-">>)
    \/ Absent("source-map") /\ Truthy(raw["source-map-inline"])
       /\ HasDest /\ DEST = <<"-">>

\* the directory that holds the file named by path, absolute
DirOf(path) == PathDirname(PathResolve(path))

\* C11: for a requested source map the resolved root is the --source-map-root
\* override when one is given; otherwise it is the relative path from the
\* directory of the map file (of the CSS destination in inline mode) to the
\* directory of the source file: followed from the map's directory it leads
\* to the source's directory.  Without an override resolution fails when
\* the source is standard input or the map goes to standard output.
C11_RootPath ==
    /\ (Resolved /\ MapRequested /\ Truthy(raw["source-map-root"])) =>
           Get(options, "source_map_root") = raw["source-map-root"]
    /\ (Resolved /\ MapRequested /\ ~Truthy(raw["source-map-root"])) =>
           /\ isPath(Get(options, "source")) /\ isPath(MapLocation)
           /\ isPath(Get(options, "source_map_root"))
           /\ PathResolve(DirOf(MapLocation.v) \o <<"/">>
                          \o Get(options, "source_map_root").v)
              = DirOf(options["source"].v)
           /\ DirOf(MapLocation.v) = DirOf(options["source"].v)
              => Get(options, "source_map_root").v = <<>>
    /\ (/\ NormalizeRan /\ MapRequested /\ ~Truthy(raw["source-map-root"])
        /\ (HasSource /\ SOURCE = <<"-">>) \/ MapOnStdout)
       => Failed

\* C11 witness: an inline map with no override, the CSS destination one
\* directory below the source: the root deduced is '..'
C11_Witness ==
    /\ Resolved /\ Absent("source-map-root")
    /\ Truthy(raw["source-map-inline"])
    /\ isPath(Get(options, "dest")) /\ isPath(Get(options, "source"))
    /\ DirOf(options["dest"].v) /= DirOf(options["source"].v)
    /\ Get(options, "source_map_root") = Str(<<".", ".">>)

(* ----------------------------------------------------------------------- *)
\* the file of the channel was named on the command line (not derived from
\* DEST, not '-')
ExplicitPath(chan) ==
    \/ chan = "map" /\ isPath(raw["source-map"]) /\ raw["source-map"] /= Str(<<"-">>)
    \/ chan = "depends" /\ isPath(raw["depends"]) /\ raw["depends"] /= Str(<<"-">>)

\* C12 (as claimed): the writes renderAndWriteLess issues target pairwise
\* distinct destinations: no two are bound to the same stream or to the same
\* file path.
C12_Claim ==
    \A i, j \in DOMAIN writes : i /= j => writes[i].file /= writes[j].file

\* C12 (amended): no two of the writes are bound to the same stream, and two
\* writes are bound to the same file path only when that path was given
\* explicitly to --source-map or --depends; the destinations derived from
\* DEST (DEST, DEST.map, DEST.d) are pairwise distinct.
C12_Amended ==
    \A i, j \in DOMAIN writes :
        (i /= j /\ writes[i].file = writes[j].file) =>
            /\ isPath(writes[i].file)
            /\ ExplicitPath(writes[i].chan) \/ ExplicitPath(writes[j].chan)

\* C12 witness: the CSS, a map derived from DEST and a dependency file derived
\* from DEST are written at once, to three different files
C12_Witness ==
    /\ pc = "write" /\ Len(writes) = 3
    /\ raw["source-map"] = Null /\ raw["depends"] = Null
    /\ \A i \in DOMAIN writes : isPath(writes[i].file) /\ writes[i].state = "pending"
    /\ Cardinality({writes[i].file : i \in DOMAIN writes}) = 3

(* ----------------------------------------------------------------------- *)
\* the message of a resolution error has been printed
ResolutionErrorPrinted == message \notin {NoError, ErrRender, ErrWrite}

\* C13: nothing is written unless option resolution and compilation both
\* succeeded: after a resolution error or a read/compile error no writeFile
\* call has been issued and the run ends with exit code 1; writeFile calls
\* exist only once the configuration is resolved and the compiler has
\* returned; and the run ends with exit code 0 only if every issued write
\* completed.
C13_NoWriteBeforeSuccess ==
    /\ (ResolutionErrorPrinted \/ message = ErrRender) =>
           /\ writes = <<>>
           /\ pc = "exited" => exit_code = 1
    /\ writes /= <<>> =>
           /\ Resolved
           /\ pc \in {"write", "exited"}
           /\ less_options = makeSourceMapOptions(options)
    /\ pc \in {"main", "render", "compile"} => writes = <<>>
    /\ exit_code = 0 => \A i \in DOMAIN writes : writes[i].state = "done"
    /\ (pc = "exited" /\ \E i \in DOMAIN writes : writes[i].state /= "done")
           => exit_code = 1

\* C13 witness: the run ended with exit code 0 after two or more writes, all
\* completed
C13_Witness ==
    /\ pc = "exited" /\ exit_code = 0
    /\ Len(writes) >= 2
    /\ \A i \in DOMAIN writes : writes[i].state = "done"

\* C13, failing runs: a compiler error ended the run with exit code 1 and
\* without a writeFile call
C13_CompileErrorReached ==
    pc = "exited" /\ message = ErrRender /\ exit_code = 1 /\ writes = <<>>

(* ----------------------------------------------------------------------- *)
\* --no-css was given on the command line
NoCss == Truthy(raw["no-css"])

\* a resolved value was computed from the second positional argument
DerivedFromDest ==
    /\ HasDest /\ ConcretePath(DEST)
    /\ \/ raw["source-map"] = Null /\ Get(options, "source_map") = Str(DEST \o <<".", "m", "a", "p">>)
       \/ raw["depends"] = Null /\ Get(options, "depends") = Str(DEST \o <<".", "d">>)
       \/ Absent("depends-target") /\ Get(options, "depends_target") = Str(DEST)
       \/ Absent("source-map-base") /\ Truthy(Get(options, "source_map_base"))

\* C15: with --no-css a single positional SOURCE is accepted, the resolved
\* destination is the "no CSS" marker null for one and for two positional
\* arguments, and no derived value (source-map path, base, dependency path,
\* dependency target) is computed from a second positional argument.
C15_Claim ==
    NoCss =>
        /\ (HasSource /\ NormalizeRan) => message /= ErrMissingDest
        /\ Resolved =>
               /\ Get(options, "dest") = Null
               /\ ~DerivedFromDest

(* ----------------------------------------------------------------------- *)
\* no component of the directory given to mkdirp exists as a non-directory
NoFileComponent(m) == Ancestors(PathResolve(m.top)) \cap files = {}

\* C14: a mkdirp(dir) call made by writeFile, alone or interleaved with those
\* of the other writers, is never rejected when no component of dir exists as
\* a non-directory, and once it is fulfilled dir and all its ancestors exist
\* as directories.
C14_Claim ==
    \A i \in DOMAIN mk :
        (mk[i].phase /= "none" /\ NoFileComponent(mk[i])) =>
            /\ mk[i].phase /= "rejected"
            /\ mk[i].phase = "resolved" =>
                   Ancestors(PathResolve(mk[i].top)) \subseteq dirs

====
